---- MODULE Spec2Model ----
(***************************************************************************)
(* meru front-end shell: hotkey dispatch (src/src/hotkey.rs) and the       *)
(* window / mode orchestration around it (src/src/app.rs).                 *)
(*                                                                         *)
(* One application tick runs the systems of `schedule` in order and then   *)
(* the state transition (bevy's State driver).  The hotkey slice is        *)
(*   check_hotkey -> process_hotkey -> window_control_event                *)
(* the order in which main() and HotKeyPlugin register the systems; the    *)
(* slices of the double click and of the notifications start with the      *)
(* First stage of the frame, where the clock advances.                     *)
(* process_hotkey, process_double_click and window_control_event iterate   *)
(* over their event readers; every loop iteration is one step of the model.*)
(***************************************************************************)
EXTENDS Integers, Sequences, FiniteSets, TLC

VARIABLES
    pc,             \* position inside the tick
    input,          \* InputState seen by the last check_hotkey: held atoms
    hotkeyEvents,   \* Events<HotKey> not yet read by process_hotkey
    isTurbo,        \* IsTurbo.0
    stack,          \* State<AppState>: the mode stack, active mode last
    scheduled,      \* State<AppState>: the queued transition, <<>> if none
    emulator,       \* Option<ResMut<Emulator>> is Some
    slot,           \* UiState.state_save_slot
    scaling,        \* Config.scaling
    windowEvents,   \* Events<WindowControlEvent> not yet read
    messageEvents,  \* ShowMessage events sent during the current tick
    emuCalls,       \* calls made on the Emulator during the current tick
    errors,         \* error!() log lines written during the current tick
    fullscreen,     \* FullscreenState.0
    windowMode,     \* primary window's WindowMode
    resolution,     \* primary window's resolution <<width, height>>
    panic,          \* "none", or the reason the application aborted
    schedule,       \* the systems of a tick, in the order they run
    clock,          \* Time::seconds_since_startup() of the frame, in ms
    lastClicked,    \* LastClicked.0, an f64: [ms, err]
    mouseEvents,    \* Events<MouseButtonInput> not yet read
    clickLog,       \* the last left presses handled: <<clock, toggled>>
    screen,         \* Option<Res<GameScreen>> is Some
    notifications,  \* the MessageText entities, oldest first
    unreadMessages  \* ShowMessage events of the previous frame left unread

vars == <<pc, input, hotkeyEvents, isTurbo, stack, scheduled, emulator, slot,
          scaling, windowEvents, messageEvents, emuCalls, errors, fullscreen,
          windowMode, resolution, panic, schedule, clock, lastClicked,
          mouseEvents, clickLog, screen, notifications, unreadMessages>>

\* what the hotkey and window systems never touch
extVars == <<schedule, clock, lastClicked, mouseEvents, clickLog, screen,
             notifications, unreadMessages>>

(***************************************************************************)
(* Bounds of the model.                                                    *)
(***************************************************************************)
\* at most this many atomic inputs are held in one snapshot
MaxHeld == 2
\* NextSlot is not pressed once the slot index has reached this value
MaxSlot == 2
\* ScaleUp is not pressed, and ChangeScale not requested, above this value
MaxScale == 2
\* frame buffer of the loaded core (Emulator.core.frame_buffer())
FbWidth == 3
FbHeight == 2

\* width of usize in the model (the arithmetic is done modulo 2^UsizeBits)
UsizeBits == 16

UsizeMax == 2^UsizeBits - 1

\* menu::MENU_WIDTH, menu::MENU_HEIGHT: the fixed size of the menu window
MENU_WIDTH == 1280
MENU_HEIGHT == 720

(***************************************************************************)
(* Binding grammar (meru_interface::key_assign, crate::input): a tree of   *)
(* All / Any nodes over atomic per-device predicates.                      *)
(***************************************************************************)
Atoms == {"LControl", "R", "Tab", "S", "L", "N", "P", "Back", "Escape",
          "RAlt", "Return", "Plus", "Equals", "Minus",
          "Pad0.LeftTrigger2", "Pad0.RightTrigger2"}

Leaf(k) == [op |-> "Leaf", key |-> k, kids |-> <<>>]
AllOf(ks) == [op |-> "All", key |-> "", kids |-> ks]
AnyOf(ks) == [op |-> "Any", key |-> "", kids |-> ks]

\* enum HotKey, in declaration order: the order all::<HotKey>() iterates in
HotKey == <<"Reset", "Turbo", "StateSave", "StateLoad", "NextSlot", "PrevSlot",
            "Rewind", "Menu", "FullScreen", "ScaleUp", "ScaleDown">>

DefaultHotKeysSaveAny(hk) ==
    CASE hk = "Reset"      -> AllOf(<<Leaf("LControl"), Leaf("R")>>)
      [] hk = "Turbo"      -> AnyOf(<<Leaf("Tab"), Leaf("Pad0.LeftTrigger2")>>)
      [] hk = "StateSave"  -> AnyOf(<<Leaf("LControl"), Leaf("S")>>)
      [] hk = "StateLoad"  -> AllOf(<<Leaf("LControl"), Leaf("L")>>)
      [] hk = "NextSlot"   -> AllOf(<<Leaf("LControl"), Leaf("N")>>)
      [] hk = "PrevSlot"   -> AllOf(<<Leaf("LControl"), Leaf("P")>>)
      [] hk = "Rewind"     -> AnyOf(<<Leaf("Back"),
                                      AllOf(<<Leaf("Pad0.LeftTrigger2"),
                                              Leaf("Pad0.RightTrigger2")>>)>>)
      [] hk = "Menu"       -> Leaf("Escape")
      [] hk = "FullScreen" -> AllOf(<<Leaf("RAlt"), Leaf("Return")>>)
      [] hk = "ScaleUp"    -> AllOf(<<Leaf("LControl"),
                                      AnyOf(<<Leaf("Plus"), Leaf("Equals")>>)>>)
      [] hk = "ScaleDown"  -> AllOf(<<Leaf("LControl"), Leaf("Minus")>>)

\* impl Default for HotKeys: the binding tree of every action
DefaultHotKeys(hk) ==
    CASE hk = "Reset"      -> AllOf(<<Leaf("LControl"), Leaf("R")>>)
      [] hk = "Turbo"      -> AnyOf(<<Leaf("Tab"), Leaf("Pad0.LeftTrigger2")>>)
      [] hk = "StateSave"  -> AllOf(<<Leaf("LControl"), Leaf("S")>>)
      [] hk = "StateLoad"  -> AllOf(<<Leaf("LControl"), Leaf("L")>>)
      [] hk = "NextSlot"   -> AllOf(<<Leaf("LControl"), Leaf("N")>>)
      [] hk = "PrevSlot"   -> AllOf(<<Leaf("LControl"), Leaf("P")>>)
      [] hk = "Rewind"     -> AnyOf(<<Leaf("Back"),
                                      AllOf(<<Leaf("Pad0.LeftTrigger2"),
                                              Leaf("Pad0.RightTrigger2")>>)>>)
      [] hk = "Menu"       -> Leaf("Escape")
      [] hk = "FullScreen" -> AllOf(<<Leaf("RAlt"), Leaf("Return")>>)
      [] hk = "ScaleUp"    -> AllOf(<<Leaf("LControl"),
                                      AnyOf(<<Leaf("Plus"), Leaf("Equals")>>)>>)
      [] hk = "ScaleDown"  -> AllOf(<<Leaf("LControl"), Leaf("Minus")>>)

\* held(node): structural recursion over the tree against one snapshot
RECURSIVE Held(_, _)
Held(node, snap) ==
    CASE node.op = "Leaf" -> node.key \in snap
      [] node.op = "All"  -> \A i \in 1..Len(node.kids) : Held(node.kids[i], snap)
      [] node.op = "Any"  -> \E i \in 1..Len(node.kids) : Held(node.kids[i], snap)

\* KeyConfig::pressed(key, input_state)
Pressed(hk, snap) == Held(DefaultHotKeys(hk), snap)

\* KeyConfig::just_pressed(key, input_state): the whole-tree transition from
\* not held at the previous snapshot to held at the current one
JustPressed(hk, prev, cur) == Pressed(hk, cur) /\ ~Pressed(hk, prev)

\* the snapshots the host input layer can present
Snapshots == {s \in SUBSET Atoms : Cardinality(s) <= MaxHeld}

\* the key sets that hold a binding tree and nothing more
RECURSIVE MinSets(_)
MinSets(node) ==
    CASE node.op = "Leaf" -> {{node.key}}
      [] node.op = "Any"  -> UNION {MinSets(node.kids[i]) : i \in 1..Len(node.kids)}
      [] node.op = "All"  ->
           IF Len(node.kids) = 1 THEN MinSets(node.kids[1])
           ELSE {a \cup b : a \in MinSets(node.kids[1]),
                            b \in MinSets(AllOf(Tail(node.kids)))}

\* chords: the snapshots made only of keys that hold some action's binding
Chords ==
    LET mins == UNION {MinSets(DefaultHotKeys(HotKey[i])) : i \in 1..Len(HotKey)}
    IN {s \in Snapshots : s = UNION {m \in mins : m \subseteq s}}

Count(x, seq) == Cardinality({i \in 1..Len(seq) : seq[i] = x})
Has(x, seq) == \E i \in 1..Len(seq) : seq[i] = x

(***************************************************************************)
(* State<AppState> (bevy_ecs 0.8): current() is the top of the stack; set, *)
(* push and pop only queue a transition, which the state driver applies    *)
(* after the tick's systems have run.  A second request while one is       *)
(* queued is refused with StateError::StateAlreadyQueued, a request for    *)
(* the state that is already current with StateError::AlreadyInState.      *)
(***************************************************************************)
Current == stack[Len(stack)]

StateRequest(s) ==
    IF Current = s THEN "AlreadyInState"
    ELSE IF scheduled # <<>> THEN "StateAlreadyQueued"
    ELSE "Ok"

Applied(stk, op) ==
    IF op = <<>> THEN stk
    ELSE IF op[1] = "Set" THEN [stk EXCEPT ![Len(stk)] = op[2]]
    ELSE IF op[1] = "Push" THEN Append(stk, op[2])
    ELSE SubSeq(stk, 1, Len(stk) - 1)

\* usize arithmetic
WrappingSub(a, b) == (a - b) % (2^UsizeBits)
SaturatingSub(a, b) == IF a < b THEN 0 ELSE a - b
Max(a, b) == IF a >= b THEN a ELSE b

TypeOK ==
    /\ pc \in {"first", "check_hotkey", "process_hotkey",
               "window_control_event", "process_double_click",
               "message_event_system", "message_update_system",
               "state_transition"}
    /\ input \in Snapshots
    /\ isTurbo \in BOOLEAN
    /\ emulator \in BOOLEAN
    /\ fullscreen \in BOOLEAN
    /\ slot \in Nat
    /\ scaling \in Nat
    /\ errors \in Nat
    /\ clock \in Nat
    /\ lastClicked.ms \in Int /\ lastClicked.err \in Int
    /\ screen \in BOOLEAN

\* the systems of the hotkey slice in the order they are registered
HotkeySchedule == <<"check_hotkey", "process_hotkey", "window_control_event">>

\* the position after system sys has run
After(sys) ==
    LET i == CHOOSE k \in 1..Len(schedule) : schedule[k] = sys
    IN IF i = Len(schedule) THEN "state_transition" ELSE schedule[i + 1]

\* the application after main() has built it, its ticks running sched
Startup(sched) ==
    /\ schedule = sched
    /\ pc = sched[1]
    /\ input = {}
    /\ hotkeyEvents = <<>>
    /\ isTurbo = FALSE
    /\ stack = <<"Menu">>
    /\ scheduled = <<>>
    /\ emulator = FALSE
    /\ slot = 0
    /\ scaling \in 1..MaxScale
    /\ windowEvents = <<>>
    /\ messageEvents = <<>>
    /\ emuCalls = <<>>
    /\ errors = 0
    /\ fullscreen = FALSE
    /\ windowMode = "Windowed"
    /\ resolution = <<MENU_WIDTH, MENU_HEIGHT>>
    /\ panic = "none"
    /\ clock = 0
    /\ lastClicked = [ms |-> 0, err |-> 0]
    /\ mouseEvents = <<>>
    /\ clickLog = <<>>
    /\ screen = FALSE
    /\ notifications = <<>>
    /\ unreadMessages = <<>>

Init == Startup(HotkeySchedule)

(***************************************************************************)
(* Between two ticks.                                                      *)
(***************************************************************************)
\* the menu starts an emulation session and the application runs it
LoadRom ==
    /\ pc = "check_hotkey" /\ panic = "none"
    /\ Current = "Menu"
    /\ emulator' = TRUE
    /\ stack' = <<"Running">>
    /\ UNCHANGED <<pc, input, hotkeyEvents, isTurbo, scheduled, slot, scaling,
                   windowEvents, messageEvents, emuCalls, errors, fullscreen,
                   windowMode, resolution, panic>>
    /\ UNCHANGED extVars

\* the rewind session ends: the stack is popped, restoring the suspended mode
RewindEnd ==
    /\ pc = "check_hotkey" /\ panic = "none"
    /\ Current = "Rewinding"
    /\ Len(stack) > 1
    /\ stack' = Applied(stack, <<"Pop">>)
    /\ UNCHANGED <<pc, input, hotkeyEvents, isTurbo, scheduled, emulator, slot,
                   scaling, windowEvents, messageEvents, emuCalls, errors,
                   fullscreen, windowMode, resolution, panic>>
    /\ UNCHANGED extVars

\* the menu sends WindowControlEvent::ChangeScale(n)
RequestChangeScale ==
    /\ pc = "check_hotkey" /\ panic = "none"
    /\ windowEvents = <<>>
    /\ \E n \in 0..MaxScale : windowEvents' = <<<<"ChangeScale", n>>>>
    /\ UNCHANGED <<pc, input, hotkeyEvents, isTurbo, stack, scheduled, emulator,
                   slot, scaling, messageEvents, emuCalls, errors, fullscreen,
                   windowMode, resolution, panic>>
    /\ UNCHANGED extVars

(***************************************************************************)
(* check_hotkey                                                            *)
(***************************************************************************)
EmittedWhileHeld(prev, cur) == SelectSeq(HotKey, LAMBDA hk : Pressed(hk, cur))

\* for hotkey in all::<HotKey>() { if just_pressed { writer.send(hotkey) } }
Emitted(prev, cur) == SelectSeq(HotKey, LAMBDA hk : JustPressed(hk, prev, cur))

\* the counters of the model stay within their bounds
WithinBounds(evs) ==
    /\ Has("NextSlot", evs) => slot < MaxSlot
    /\ Has("ScaleUp", evs) => scaling < MaxScale
    /\ Has("ScaleDown", evs) => scaling <= MaxScale

TurboLevelEdge(prev, cur) == JustPressed("Turbo", prev, cur)

\* is_turbo.0 = config.hotkeys.pressed(&HotKey::Turbo, &input_state)
TurboLevel(prev, cur) == Pressed("Turbo", cur)

\* check_hotkey, the host presenting one of the snapshots of `snaps`
check_hotkey(snaps) ==
    /\ pc = "check_hotkey" /\ panic = "none"
    /\ \E cur \in snaps :
         /\ WithinBounds(Emitted(input, cur))
         /\ hotkeyEvents' = hotkeyEvents \o Emitted(input, cur)
         /\ isTurbo' = TurboLevel(input, cur)
         /\ input' = cur
    /\ pc' = After("check_hotkey")
    /\ UNCHANGED <<stack, scheduled, emulator, slot, scaling, windowEvents,
                   messageEvents, emuCalls, errors, fullscreen, windowMode,
                   resolution, panic>>
    /\ UNCHANGED extVars

\* the snapshots that can follow prev when the user releases any of the held
\* keys and presses at most one more, or presses a chord from released keys
KeySteps(prev) ==
    {s \in {(prev \ rel) \cup add : rel \in SUBSET prev,
                                    add \in {{}} \cup {{k} : k \in Atoms}} :
        s \in Snapshots}
    \cup (IF prev = {} THEN Chords ELSE {})

CheckHotkey == check_hotkey(KeySteps(input))

\* the user presses a chord from released keys, holds it, or releases it
CheckHotkeyChord ==
    check_hotkey(IF input = {} THEN Chords ELSE {input, {}})

(***************************************************************************)
(* process_hotkey: one step per event of `for hotkey in reader.iter()`.    *)
(***************************************************************************)
\* the loop takes the next unread event, which is hk
Handling(hk) ==
    /\ pc = "process_hotkey" /\ panic = "none"
    /\ hotkeyEvents # <<>>
    /\ Head(hotkeyEvents) = hk
    /\ hotkeyEvents' = Tail(hotkeyEvents)

ShowMessage(msg) == messageEvents' = Append(messageEvents, msg)
EmulatorCall(call) == emuCalls' = Append(emuCalls, call)

OnReset ==
    /\ Handling("Reset")
    /\ IF emulator
         THEN EmulatorCall(<<"reset">>) /\ ShowMessage(<<"Reset machine">>)
         ELSE UNCHANGED <<emuCalls, messageEvents>>
    /\ UNCHANGED <<pc, input, isTurbo, stack, scheduled, emulator, slot, scaling,
                   windowEvents, errors, fullscreen, windowMode, resolution, panic>>
    /\ UNCHANGED extVars

\* emulator.save_state_slot(..).unwrap(): an Err aborts the application
SaveOutcome(ok) ==
    IF ok THEN ShowMessage(<<"State saved: #", slot>>) /\ UNCHANGED panic
    ELSE panic' = "save_state_slot: unwrap on Err" /\ UNCHANGED messageEvents

OnStateSave ==
    /\ Handling("StateSave")
    /\ IF emulator
         THEN \E ok \in BOOLEAN :
                /\ EmulatorCall(<<"save_state_slot", slot, ok>>)
                /\ SaveOutcome(ok)
         ELSE UNCHANGED <<emuCalls, messageEvents, panic>>
    /\ UNCHANGED <<pc, input, isTurbo, stack, scheduled, emulator, slot, scaling,
                   windowEvents, errors, fullscreen, windowMode, resolution>>
    /\ UNCHANGED extVars

LoadOutcomeSilent(ok) ==
    IF ok THEN ShowMessage(<<"State loaded: #", slot>>) /\ UNCHANGED errors
    ELSE errors' = errors + 1 /\ UNCHANGED messageEvents

LoadOutcome(ok) ==
    IF ok THEN ShowMessage(<<"State loaded: #", slot>>) /\ UNCHANGED errors
    ELSE ShowMessage(<<"Failed to load state">>) /\ errors' = errors + 1

OnStateLoad ==
    /\ Handling("StateLoad")
    /\ IF emulator
         THEN \E ok \in BOOLEAN :
                /\ EmulatorCall(<<"load_state_slot", slot, ok>>)
                /\ LoadOutcome(ok)
         ELSE UNCHANGED <<emuCalls, messageEvents, errors>>
    /\ UNCHANGED <<pc, input, isTurbo, stack, scheduled, emulator, slot, scaling,
                   windowEvents, fullscreen, windowMode, resolution, panic>>
    /\ UNCHANGED extVars

\* ui_state.state_save_slot += 1
NextSlotValue(n) == n + 1

OnNextSlot ==
    /\ Handling("NextSlot")
    /\ slot' = NextSlotValue(slot)
    /\ ShowMessage(<<"State slot changed: #", slot'>>)
    /\ UNCHANGED <<pc, input, isTurbo, stack, scheduled, emulator, scaling,
                   windowEvents, emuCalls, errors, fullscreen, windowMode,
                   resolution, panic>>
    /\ UNCHANGED extVars

PrevSlotWrapping(n) == WrappingSub(n, 1)

\* ui_state.state_save_slot.saturating_sub(1)
PrevSlotValue(n) == SaturatingSub(n, 1)

OnPrevSlot ==
    /\ Handling("PrevSlot")
    /\ slot' = PrevSlotValue(slot)
    /\ ShowMessage(<<"State slot changed: #", slot'>>)
    /\ UNCHANGED <<pc, input, isTurbo, stack, scheduled, emulator, scaling,
                   windowEvents, emuCalls, errors, fullscreen, windowMode,
                   resolution, panic>>
    /\ UNCHANGED extVars

RewindGuardAlways == TRUE

RewindRequestSet == <<"Set", "Rewinding">>

\* app_state.push(AppState::Rewinding)
RewindRequest == <<"Push", "Rewinding">>

\* if app_state.current() == &AppState::Running
RewindGuard == Current = "Running"

OnRewind ==
    /\ Handling("Rewind")
    /\ IF RewindGuard
         THEN IF ~emulator
                THEN /\ panic' = "emulator: unwrap on None"
                     /\ UNCHANGED <<emuCalls, scheduled>>
                ELSE /\ EmulatorCall(<<"push_auto_save">>)
                     /\ IF StateRequest("Rewinding") = "Ok"
                          THEN scheduled' = RewindRequest /\ UNCHANGED panic
                          ELSE panic' = "app_state.push: unwrap on Err"
                               /\ UNCHANGED scheduled
         ELSE UNCHANGED <<emuCalls, scheduled, panic>>
    /\ UNCHANGED <<pc, input, isTurbo, stack, emulator, slot, scaling, windowEvents,
                   messageEvents, errors, fullscreen, windowMode, resolution>>
    /\ UNCHANGED extVars

MenuTargetNoSession ==
    IF Current = "Running" THEN "Menu"
    ELSE IF Current = "Menu" THEN "Running"
    ELSE "none"

\* the mode the Menu action asks for, "none" when it asks for nothing
MenuTarget ==
    IF Current = "Running" THEN "Menu"
    ELSE IF Current = "Menu" /\ emulator THEN "Running"
    ELSE "none"

OnMenu ==
    /\ Handling("Menu")
    /\ IF MenuTarget # "none"
         THEN IF StateRequest(MenuTarget) = "Ok"
                THEN scheduled' = <<"Set", MenuTarget>> /\ UNCHANGED panic
                ELSE panic' = "app_state.set: unwrap on Err" /\ UNCHANGED scheduled
         ELSE UNCHANGED <<scheduled, panic>>
    /\ UNCHANGED <<pc, input, isTurbo, stack, emulator, slot, scaling, windowEvents,
                   messageEvents, emuCalls, errors, fullscreen, windowMode,
                   resolution>>
    /\ UNCHANGED extVars

OnFullScreen ==
    /\ Handling("FullScreen")
    /\ windowEvents' = Append(windowEvents, <<"ToggleFullscreen">>)
    /\ UNCHANGED <<pc, input, isTurbo, stack, scheduled, emulator, slot, scaling,
                   messageEvents, emuCalls, errors, fullscreen, windowMode,
                   resolution, panic>>
    /\ UNCHANGED extVars

\* config.scaling += 1
ScaleUpValue(n) == n + 1

OnScaleUp ==
    /\ Handling("ScaleUp")
    /\ scaling' = ScaleUpValue(scaling)
    /\ windowEvents' = Append(windowEvents, <<"Restore">>)
    /\ UNCHANGED <<pc, input, isTurbo, stack, scheduled, emulator, slot,
                   messageEvents, emuCalls, errors, fullscreen, windowMode,
                   resolution, panic>>
    /\ UNCHANGED extVars

\* (config.scaling - 1).max(1), the subtraction having succeeded
ScaleDownValue(n) == Max(WrappingSub(n, 1), 1)

\* config.scaling - 1 underflows at 0: with overflow checks the application
\* aborts, without them the subtraction wraps
OnScaleDown ==
    /\ Handling("ScaleDown")
    /\ \/ /\ scaling = 0
          /\ panic' = "attempt to subtract with overflow"
          /\ UNCHANGED <<scaling, windowEvents>>
       \/ /\ scaling' = ScaleDownValue(scaling)
          /\ windowEvents' = Append(windowEvents, <<"Restore">>)
          /\ UNCHANGED panic
    /\ UNCHANGED <<pc, input, isTurbo, stack, scheduled, emulator, slot,
                   messageEvents, emuCalls, errors, fullscreen, windowMode,
                   resolution>>
    /\ UNCHANGED extVars

OnTurbo ==
    /\ Handling("Turbo")
    /\ UNCHANGED <<pc, input, isTurbo, stack, scheduled, emulator, slot, scaling,
                   windowEvents, messageEvents, emuCalls, errors, fullscreen,
                   windowMode, resolution, panic>>
    /\ UNCHANGED extVars

\* reader.iter() is exhausted
ProcessHotkeyDone ==
    /\ pc = "process_hotkey" /\ panic = "none"
    /\ hotkeyEvents = <<>>
    /\ pc' = After("process_hotkey")
    /\ UNCHANGED <<input, hotkeyEvents, isTurbo, stack, scheduled, emulator, slot,
                   scaling, windowEvents, messageEvents, emuCalls, errors,
                   fullscreen, windowMode, resolution, panic>>
    /\ UNCHANGED extVars

(***************************************************************************)
(* window_control_event: one step per event of `for event in event.iter()`.*)
(***************************************************************************)
restore_windowAlways(app_state, res, fs, scale) ==
    IF app_state = "Menu"
      THEN <<MENU_WIDTH, MENU_HEIGHT>>
      ELSE <<FbWidth * scale, FbHeight * scale>>

\* restore_window: the resolution of the window after the call
restore_window(app_state, res, fs, scale) ==
    LET target == IF app_state = "Menu"
                    THEN <<MENU_WIDTH, MENU_HEIGHT>>
                    ELSE <<FbWidth * scale, FbHeight * scale>>
    IN IF ~fs THEN target ELSE res

WindowHandling(kind) ==
    /\ pc = "window_control_event" /\ panic = "none"
    /\ windowEvents # <<>>
    /\ Head(windowEvents)[1] = kind
    /\ windowEvents' = Tail(windowEvents)

WindowModeStuck(fs) == "Windowed"

\* window.set_mode(..) of either branch of `if fullscreen_state.0`
WindowModeFor(fs) == IF fs THEN "BorderlessFullscreen" ELSE "Windowed"

OnToggleFullscreen ==
    /\ WindowHandling("ToggleFullscreen")
    /\ fullscreen' = ~fullscreen
    /\ windowMode' = WindowModeFor(fullscreen')
    /\ resolution' = IF emulator
                       THEN restore_window(Current, resolution, fullscreen', scaling)
                       ELSE resolution
    /\ UNCHANGED <<pc, input, hotkeyEvents, isTurbo, stack, scheduled, emulator,
                   slot, scaling, messageEvents, emuCalls, errors, panic>>
    /\ UNCHANGED extVars

\* config.scaling = *scale
ChangeScaleValue(n) == n

OnChangeScale ==
    /\ WindowHandling("ChangeScale")
    /\ scaling' = ChangeScaleValue(Head(windowEvents)[2])
    /\ IF Current = "Running"
         THEN IF emulator
                THEN /\ resolution' = restore_window(Current, resolution,
                                                     fullscreen, scaling')
                     /\ UNCHANGED panic
                ELSE /\ panic' = "emulator: unwrap on None"
                     /\ UNCHANGED resolution
         ELSE UNCHANGED <<resolution, panic>>
    /\ UNCHANGED <<pc, input, hotkeyEvents, isTurbo, stack, scheduled, emulator,
                   slot, messageEvents, emuCalls, errors, fullscreen, windowMode>>
    /\ UNCHANGED extVars

OnRestore ==
    /\ WindowHandling("Restore")
    /\ IF emulator
         THEN /\ resolution' = restore_window(Current, resolution, fullscreen,
                                              scaling)
              /\ UNCHANGED panic
         ELSE /\ panic' = "emulator: unwrap on None"
              /\ UNCHANGED resolution
    /\ UNCHANGED <<pc, input, hotkeyEvents, isTurbo, stack, scheduled, emulator,
                   slot, scaling, messageEvents, emuCalls, errors, fullscreen,
                   windowMode>>
    /\ UNCHANGED extVars

WindowControlDone ==
    /\ pc = "window_control_event" /\ panic = "none"
    /\ windowEvents = <<>>
    /\ pc' = After("window_control_event")
    /\ UNCHANGED <<input, hotkeyEvents, isTurbo, stack, scheduled, emulator, slot,
                   scaling, windowEvents, messageEvents, emuCalls, errors,
                   fullscreen, windowMode, resolution, panic>>
    /\ UNCHANGED extVars

\* the state driver applies the queued transition at the end of the tick;
\* the records of the tick (messages sent, emulator calls, log lines) end
StateTransition ==
    /\ pc = "state_transition" /\ panic = "none"
    /\ stack' = Applied(stack, scheduled)
    /\ scheduled' = <<>>
    /\ pc' = schedule[1]
    /\ messageEvents' = <<>>
    /\ emuCalls' = <<>>
    /\ errors' = 0
    /\ UNCHANGED <<input, hotkeyEvents, isTurbo, emulator, slot, scaling,
                   windowEvents, fullscreen, windowMode, resolution, panic>>
    /\ UNCHANGED extVars

\* the steps of process_hotkey
ProcessHotkey ==
    \/ OnReset
    \/ OnTurbo
    \/ OnStateSave
    \/ OnStateLoad
    \/ OnNextSlot
    \/ OnPrevSlot
    \/ OnRewind
    \/ OnMenu
    \/ OnFullScreen
    \/ OnScaleUp
    \/ OnScaleDown
    \/ ProcessHotkeyDone

Next ==
    \/ LoadRom
    \/ RewindEnd
    \/ RequestChangeScale
    \/ CheckHotkeyChord
    \/ ProcessHotkey
    \/ OnToggleFullscreen
    \/ OnChangeScale
    \/ OnRestore
    \/ WindowControlDone
    \/ StateTransition

Spec == Init /\ [][Next]_vars

\* the binding grammar under arbitrary input, no emulation session started
NextKeys ==
    \/ CheckHotkey
    \/ ProcessHotkey
    \/ OnToggleFullscreen
    \/ OnRestore
    \/ WindowControlDone
    \/ StateTransition

SpecKeys == Init /\ [][NextKeys]_vars

\* the orders in which a tick can run the three systems of the hotkey slice:
\* neither HotKeyPlugin::build nor main() orders check_hotkey, process_hotkey
\* and window_control_event against each other
HotkeySchedules ==
    LET systems == {HotkeySchedule[i] : i \in 1..Len(HotkeySchedule)}
    IN {s \in {<<a, b, c>> : a, b, c \in systems} :
          s[1] # s[2] /\ s[1] # s[3] /\ s[2] # s[3]}

InitOrder == \E sched \in HotkeySchedules : Startup(sched)

\* the hotkey slice under any of the schedules
SpecOrder == InitOrder /\ [][Next]_vars

(***************************************************************************)
(* f64 arithmetic on times.  The clock is a Duration in whole ms; the      *)
(* systems read it as f64 seconds and subtract f64 values.  An f64 value   *)
(* is the record [ms, err] standing for exactly                            *)
(*     ms / 1000 + err / (1000 * 2^F64ErrBits)  seconds,                   *)
(* err being the rounding error it carries.  Every operation rounds its    *)
(* exact result to the nearest f64, ties to even, as IEEE 754 does.        *)
(* Good for times below 16 s.                                              *)
(***************************************************************************)
F64ErrBits == 63
F64Mantissa == 52

F64(ms, err) == [ms |-> ms, err |-> err]

RECURSIVE MulPow2Mod(_, _, _)
\* (k * 2^u) mod m, ten doublings at a time to stay within 32 bits
MulPow2Mod(k, u, m) ==
    IF u < 10 THEN (k * 2^u) % m
              ELSE MulPow2Mod((k * 2^10) % m, u - 10, m)

\* the n with 1000 <= k * 2^n < 2000, for k > 0: -n is the binary exponent
\* of k / 1000
F64Shift(k) ==
    IF k < 1000
      THEN CHOOSE n \in 0..10 : 1000 <= k * 2^n /\ k * 2^n < 2000
      ELSE 0 - (CHOOSE m \in 0..3 : 1000 * 2^m <= k /\ k < 2000 * 2^m)

\* k / 1000 is a power of two
F64IsPow2(k) ==
    IF F64Shift(k) >= 0
      THEN k * 2^F64Shift(k) = 1000
      ELSE k = 1000 * 2^(0 - F64Shift(k))

\* the f64 nearest to k / 1000 + c / (1000 * 2^F64ErrBits), k > 0
F64RoundPos(k, c) ==
    LET u == F64Mantissa + F64Shift(k)
               + (IF F64IsPow2(k) /\ c < 0 THEN 1 ELSE 0)
        G == 1000 * 2^(F64ErrBits - u)       \* one unit in the last place
        R == (2^(F64ErrBits - u) * MulPow2Mod(k, u, 2000) + c) % (2 * G)
        r == R % G
        up == 2 * r > G \/ (2 * r = G /\ R >= G)
    IN F64(k, IF up THEN c + (G - r) ELSE c - r)

\* the f64 nearest to k / 1000 + c / (1000 * 2^F64ErrBits)
F64Round(k, c) ==
    IF k = 0 THEN F64(0, c)
    ELSE IF k > 0 THEN F64RoundPos(k, c)
    ELSE F64(k, 0 - F64RoundPos(0 - k, 0 - c).err)

\* x - y
F64Sub(x, y) == F64Round(x.ms - y.ms, x.err - y.err)

\* x < ms / 1000 and x > ms / 1000, ms / 1000 being an f64 itself
F64Less(x, ms) == x.ms < ms \/ (x.ms = ms /\ x.err < 0)
F64Greater(x, ms) == x.ms > ms \/ (x.ms = ms /\ x.err > 0)

\* Time::seconds_since_startup() on the frame at ms: Duration::as_secs_f64,
\* (secs as f64) + (nanos as f64) / 1e9
seconds_since_startup(ms) ==
    LET frac == F64Round(ms % 1000, 0)
    IN IF ms < 1000 THEN frac ELSE F64Round(ms, frac.err)

(***************************************************************************)
(* The First stage of a frame: bevy updates Time before any system runs.   *)
(***************************************************************************)
TimeStep == 50
MaxSkip == 5
SendHorizon == 1100
ClickHorizon == 600
MaxMouse == 2
ClickLogLen == 3

\* a request sent by SendHorizon is shown within two frames: the clock runs
\* until the notification has been removed
MessageHorizon == SendHorizon + 2 * MaxSkip * TimeStep + 3000 + TimeStep

\* the clock stops at the horizon of the slice
Horizon ==
    IF \E i \in 1..Len(schedule) : schedule[i] = "process_double_click"
      THEN ClickHorizon ELSE MessageHorizon

\* the frame begins some multiple of TimeStep after the previous one
FirstStage ==
    /\ pc = "first" /\ panic = "none"
    /\ \E k \in 1..MaxSkip :
         /\ clock + k * TimeStep <= Horizon
         /\ clock' = clock + k * TimeStep
    /\ pc' = After("first")
    /\ UNCHANGED <<input, hotkeyEvents, isTurbo, stack, scheduled, emulator, slot,
                   scaling, windowEvents, messageEvents, emuCalls, errors,
                   fullscreen, windowMode, resolution, panic, schedule,
                   lastClicked, mouseEvents, clickLog, screen, notifications,
                   unreadMessages>>

(***************************************************************************)
(* process_double_click: one step per event of mouse_button_event.iter().  *)
(***************************************************************************)
MouseButtonInputs ==
    {<<b, st>> : b \in {"Left", "Right"}, st \in {"Pressed", "Released"}}

\* the window system delivers a mouse button event before the frame
MouseInput ==
    /\ pc = "first" /\ panic = "none"
    /\ Len(mouseEvents) < MaxMouse
    /\ \E ev \in MouseButtonInputs : mouseEvents' = Append(mouseEvents, ev)
    /\ UNCHANGED <<pc, input, hotkeyEvents, isTurbo, stack, scheduled, emulator,
                   slot, scaling, windowEvents, messageEvents, emuCalls, errors,
                   fullscreen, windowMode, resolution, panic, schedule, clock,
                   lastClicked, clickLog, screen, notifications, unreadMessages>>

DoubleClickMs == 250
BackdateMs == 1000

\* diff < 0.25
IsDoubleClick(diff) == F64Less(diff, DoubleClickMs)

\* the last n entries of seq
KeepLast(seq, n) ==
    IF Len(seq) <= n THEN seq ELSE SubSeq(seq, Len(seq) - n + 1, Len(seq))

\* the loop takes the next unread mouse event
MouseHandling ==
    /\ pc = "process_double_click" /\ panic = "none"
    /\ mouseEvents # <<>>
    /\ mouseEvents' = Tail(mouseEvents)

IsLeftPress(ev) == ev[1] = "Left" /\ ev[2] = "Pressed"

OnLeftPressed ==
    /\ MouseHandling
    /\ IsLeftPress(Head(mouseEvents))
    /\ LET cur == seconds_since_startup(clock)
           diff == F64Sub(cur, lastClicked)
       IN /\ IF IsDoubleClick(diff)
               THEN /\ windowEvents' = Append(windowEvents, <<"ToggleFullscreen">>)
                    /\ lastClicked' = F64Sub(cur, F64(BackdateMs, 0))
               ELSE /\ lastClicked' = cur
                    /\ UNCHANGED windowEvents
          /\ clickLog' = KeepLast(Append(clickLog, <<clock, IsDoubleClick(diff)>>),
                                  ClickLogLen)
    /\ UNCHANGED <<pc, input, hotkeyEvents, isTurbo, stack, scheduled, emulator,
                   slot, scaling, messageEvents, emuCalls, errors, fullscreen,
                   windowMode, resolution, panic, schedule, clock, screen,
                   notifications, unreadMessages>>

\* any other button, and any release
OnOtherMouse ==
    /\ MouseHandling
    /\ ~IsLeftPress(Head(mouseEvents))
    /\ UNCHANGED <<pc, input, hotkeyEvents, isTurbo, stack, scheduled, emulator,
                   slot, scaling, windowEvents, messageEvents, emuCalls, errors,
                   fullscreen, windowMode, resolution, panic, schedule, clock,
                   lastClicked, clickLog, screen, notifications, unreadMessages>>

\* mouse_button_event.iter() is exhausted
ProcessDoubleClickDone ==
    /\ pc = "process_double_click" /\ panic = "none"
    /\ mouseEvents = <<>>
    /\ pc' = After("process_double_click")
    /\ UNCHANGED <<input, hotkeyEvents, isTurbo, stack, scheduled, emulator, slot,
                   scaling, windowEvents, messageEvents, emuCalls, errors,
                   fullscreen, windowMode, resolution, panic, schedule, clock,
                   lastClicked, mouseEvents, clickLog, screen, notifications,
                   unreadMessages>>

\* the systems of the double click in the order main() registers them
ClickSchedule == <<"first", "window_control_event", "process_double_click">>

\* main() orders neither of the two against the other
ClickSchedules ==
    {ClickSchedule, <<"first", "process_double_click", "window_control_event">>}

InitClick == \E sched \in ClickSchedules : Startup(sched)

NextClick ==
    \/ FirstStage
    \/ MouseInput
    \/ OnToggleFullscreen
    \/ WindowControlDone
    \/ OnLeftPressed
    \/ OnOtherMouse
    \/ ProcessDoubleClickDone
    \/ StateTransition

\* the double click on the window
SpecClick == InitClick /\ [][NextClick]_vars

(***************************************************************************)
(* MessagePlugin: message_event_system, then message_update_system.        *)
(* A notification is a MessageText entity: its text, its start time, the   *)
(* ease of its Transform (from, to, begun at t0; from = to when it was     *)
(* never moved) and the number of notifications inserted after it.         *)
(* Vertical offsets are relative to the base position at which a           *)
(* notification is spawned, in units that make the cubic ease exact.       *)
(***************************************************************************)
MaxBatch == 2
MaxNotes == 2

MessageLifetimeMs == 3000
EaseMs == 100
StackStepPx == 20

\* StackStepPx pixels, in units of 4 * StackStepPx / EaseMs^3 pixels
StackStep == (EaseMs * EaseMs * EaseMs) \div 4

\* the texts process_hotkey sends
Texts == {<<"Reset machine">>, <<"State slot changed: #", 1>>}

\* EaseFunction::CubicInOut over one step, e ms into the ease:
\* 4 p^3 below the middle, 1 - 4 (1 - p)^3 from there on
CubicInOut(e) ==
    IF 2 * e < EaseMs
      THEN e * e * e
      ELSE StackStep - (EaseMs - e) * (EaseMs - e) * (EaseMs - e)

\* the offset of notification n on the frame of time now
Position(n, now) ==
    IF n.from = n.to \/ now - n.t0 >= EaseMs
      THEN n.to
      ELSE n.from + CubicInOut(now - n.t0)

\* process_hotkey (or the menu, or the core) sends ShowMessage(msg)
SendShowMessage ==
    /\ pc = "first" /\ panic = "none"
    /\ clock <= SendHorizon
    /\ Len(messageEvents) < MaxBatch
    /\ Len(notifications) + Len(unreadMessages) + Len(messageEvents) < MaxNotes
    /\ \E msg \in Texts : ShowMessage(msg)
    /\ UNCHANGED <<pc, input, hotkeyEvents, isTurbo, stack, scheduled, emulator,
                   slot, scaling, windowEvents, emuCalls, errors, fullscreen,
                   windowMode, resolution, panic, schedule, clock, lastClicked,
                   mouseEvents, clickLog, screen, notifications, unreadMessages>>

\* the emulator core inserts the GameScreen resource
ScreenCreated ==
    /\ pc = "first" /\ panic = "none"
    /\ ~screen
    /\ screen' = TRUE
    /\ UNCHANGED <<pc, input, hotkeyEvents, isTurbo, stack, scheduled, emulator,
                   slot, scaling, windowEvents, messageEvents, emuCalls, errors,
                   fullscreen, windowMode, resolution, panic, schedule, clock,
                   lastClicked, mouseEvents, clickLog, notifications,
                   unreadMessages>>

\* trans.ease_to(Transform::from_xyz(0.0, 20.0, 0.0) * *trans, ..), inserted
\* once per event of the batch: every insert is computed from the Transform
\* the query holds and replaces the one before, commands being deferred
Eased(n, now, batch) ==
    [n EXCEPT !.from = Position(n, now),
              !.to = Position(n, now) + StackStep,
              !.t0 = now,
              !.newer = n.newer + Len(batch)]

\* spawn_bundle(Text2dBundle { .. }).insert(MessageText { start }), for the
\* i-th event of the batch
Spawned(batch, i, now) ==
    [text |-> batch[i], start |-> now, from |-> 0, to |-> 0, t0 |-> now,
     newer |-> Len(batch) - i]

message_event_system ==
    /\ pc = "message_event_system" /\ panic = "none"
    /\ IF ~screen
         THEN \* return before event.iter(): the events of this frame stay
              \* unread for one more frame, those of the frame before expire
              /\ unreadMessages' = messageEvents
              /\ UNCHANGED notifications
         ELSE LET batch == unreadMessages \o messageEvents
              IN /\ notifications' =
                      (IF batch = <<>>
                         THEN notifications
                         ELSE [i \in 1..Len(notifications) |->
                                 Eased(notifications[i], clock, batch)])
                      \o [i \in 1..Len(batch) |-> Spawned(batch, i, clock)]
                 /\ unreadMessages' = <<>>
    /\ pc' = After("message_event_system")
    /\ UNCHANGED <<input, hotkeyEvents, isTurbo, stack, scheduled, emulator, slot,
                   scaling, windowEvents, messageEvents, emuCalls, errors,
                   fullscreen, windowMode, resolution, panic, schedule, clock,
                   lastClicked, mouseEvents, clickLog, screen>>

\* time.seconds_since_startup() - msg.start > 3.0, msg.start being the
\* seconds_since_startup() of the frame at start
Expired(now, start) ==
    F64Greater(F64Sub(seconds_since_startup(now), seconds_since_startup(start)),
               MessageLifetimeMs)

message_update_system ==
    /\ pc = "message_update_system" /\ panic = "none"
    /\ notifications' = SelectSeq(notifications,
                                  LAMBDA n : ~Expired(clock, n.start))
    /\ pc' = After("message_update_system")
    /\ UNCHANGED <<input, hotkeyEvents, isTurbo, stack, scheduled, emulator, slot,
                   scaling, windowEvents, messageEvents, emuCalls, errors,
                   fullscreen, windowMode, resolution, panic, schedule, clock,
                   lastClicked, mouseEvents, clickLog, screen, unreadMessages>>

\* the systems of MessagePlugin: message_update_system.after("message_event")
MessageSchedule ==
    <<"first", "message_event_system", "message_update_system">>

InitMessage == Startup(MessageSchedule)

NextMessage ==
    \/ FirstStage
    \/ SendShowMessage
    \/ ScreenCreated
    \/ message_event_system
    \/ message_update_system
    \/ StateTransition

\* the notifications
SpecMessage == InitMessage /\ [][NextMessage]_vars

\* the frame loop never stops
SpecMessageLive == SpecMessage /\ WF_vars(NextMessage)

(***************************************************************************)
(* Properties.                                                             *)
(***************************************************************************)
\* a check_hotkey step: `input` is the previous snapshot, `input'` the current
CheckStep == pc = "check_hotkey" /\ pc' = "process_hotkey"

\* C1: in every tick check_hotkey emits, for each action, exactly one event
\* if the action's binding tree is held now and was not held on the previous
\* tick, and none otherwise; so a held run yields one event, on its first
\* tick, and nothing more until the tree was released and is held again.
C1_OneEventPerHeldRun ==
    [][CheckStep =>
         \A i \in 1..Len(HotKey) :
            Count(HotKey[i], hotkeyEvents') =
               IF Held(DefaultHotKeys(HotKey[i]), input')
                  /\ ~Held(DefaultHotKeys(HotKey[i]), input)
                 THEN 1 ELSE 0]_vars

\* a tick on which FullScreen's chord is held and check_hotkey has emitted
\* nothing (no event is pending and none was handled): the chord was already
\* held on the tick before
C1_Witness ==
    /\ pc = "process_hotkey"
    /\ input = {"RAlt", "Return"}
    /\ hotkeyEvents = <<>>
    /\ windowEvents = <<>>

\* C2: for StateSave = all![LControl, S], whichever leaf a is held first:
\* the action fires on the tick the other leaf b becomes held while a stays
\* held, does not fire on the tick only a becomes held, does not fire on any
\* tick after both were held (one released, the other kept), and fires on
\* no tick that does not end with both held.
C2_AllFiresOnSecondLeaf ==
    [][CheckStep =>
         LET fired == Has("StateSave", hotkeyEvents')
         IN /\ fired => {"LControl", "S"} \subseteq input'
            /\ \A p \in {<<"LControl", "S">>, <<"S", "LControl">>} :
                 LET a == p[1]
                     b == p[2]
                 IN /\ (a \in input /\ b \notin input /\ a \in input')
                          => (fired <=> b \in input')
                    /\ (a \notin input /\ b \notin input
                          /\ a \in input' /\ b \notin input') => ~fired
                    /\ (a \in input /\ b \in input) => ~fired]_vars

\* both leaves held and the one StateSave event of the run emitted
C2_Witness ==
    /\ pc = "process_hotkey"
    /\ input = {"LControl", "S"}
    /\ hotkeyEvents = <<"StateSave">>

\* C3: a Rewind event handled while Running makes exactly one push_auto_save
\* call and queues the push of Rewinding, which the state driver applies on
\* top of Running; handled in any other mode it changes nothing.
C3_RewindPushesOnce ==
    [][/\ Handling("Rewind") =>
            IF Current = "Running"
              THEN /\ emuCalls' = Append(emuCalls, <<"push_auto_save">>)
                   /\ scheduled' = <<"Push", "Rewinding">>
                   /\ Applied(stack, scheduled') = <<"Running", "Rewinding">>
                   /\ panic' = "none"
              ELSE UNCHANGED <<emuCalls, scheduled, panic>>
       /\ Handling("Rewind") =>
            UNCHANGED <<stack, emulator, slot, scaling, windowEvents,
                        messageEvents, fullscreen, windowMode, resolution>>
       /\ (pc = "state_transition" /\ pc' = "check_hotkey"
             /\ scheduled = <<"Push", "Rewinding">>)
            => stack' = <<"Running", "Rewinding">>]_vars

\* the push requested by Rewind is queued, after one push_auto_save call
C3_Witness ==
    /\ pc = "state_transition"
    /\ scheduled = <<"Push", "Rewinding">>
    /\ emuCalls = <<<<"push_auto_save">>>>

\* C4 as stated: a Menu event handled while Running replaces Running by
\* Menu; handled in Menu it sets Running iff a session exists; otherwise it
\* changes nothing.
C4_MenuToggles ==
    [][Handling("Menu") =>
         /\ UNCHANGED stack
         /\ IF Current = "Running"
              THEN scheduled' = <<"Set", "Menu">> /\ panic' = "none"
              ELSE IF Current = "Menu" /\ emulator
                     THEN scheduled' = <<"Set", "Running">> /\ panic' = "none"
                     ELSE UNCHANGED <<scheduled, panic>>]_vars

\* C5 as stated: no mode transition request ends in an error that aborts the
\* application.
C5_TransitionsNeverAbort ==
    panic \notin {"app_state.push: unwrap on Err", "app_state.set: unwrap on Err"}

\* C6: the mode stack is never empty and never deeper than two; Rewinding
\* occurs only as the second entry, on top of Running; a push is queued only
\* on top of a lone Running and a pop only with an entry beneath the top.
C6_StackShape ==
    /\ Len(stack) \in {1, 2}
    /\ \A i \in 1..Len(stack) :
         stack[i] = "Rewinding" => (i = 2 /\ stack[1] = "Running")
    /\ Len(stack) = 2 => stack[2] = "Rewinding"
    /\ scheduled # <<>> =>
         /\ scheduled[1] = "Push" => (stack = <<"Running">>
                                        /\ scheduled[2] = "Rewinding")
         /\ scheduled[1] = "Set" => Len(stack) = 1
         /\ scheduled[1] = "Pop" => Len(stack) = 2

\* a tick spent in Rewinding, Running suspended beneath it
C6_Witness ==
    /\ stack = <<"Running", "Rewinding">>
    /\ pc = "window_control_event"

\* C7: a StateLoad whose load_state_slot call fails sends the one message
\* "Failed to load state", leaves mode, stack and slot as they were and does
\* not abort.
C7_LoadFailureNotified ==
    [][(Handling("StateLoad")
          /\ emuCalls' = Append(emuCalls, <<"load_state_slot", slot, FALSE>>))
         => /\ messageEvents' = Append(messageEvents, <<"Failed to load state">>)
            /\ UNCHANGED <<stack, scheduled, slot>>
            /\ panic' = "none"]_vars

\* a failed load has been handled and notified
C7_Witness ==
    /\ \E i \in 1..Len(emuCalls) :
         /\ emuCalls[i][1] = "load_state_slot"
         /\ emuCalls[i][3] = FALSE
    /\ Has(<<"Failed to load state">>, messageEvents)

\* C8 as stated: a StateSave whose save_state_slot call fails is notified,
\* leaves mode and slot as they were and does not abort.
C8_SaveFailureNotified ==
    [][(Handling("StateSave")
          /\ emuCalls' = Append(emuCalls, <<"save_state_slot", slot, FALSE>>))
         => /\ Len(messageEvents') = Len(messageEvents) + 1
            /\ UNCHANGED <<stack, scheduled, slot>>
            /\ panic' = "none"]_vars

\* C9: the slot index is never negative; PrevSlot yields n-1, and 0 at 0;
\* NextSlot yields n+1; PrevSlot applied to the result of NextSlot gives n.
C9_SlotSaturates ==
    [][/\ Handling("PrevSlot") => slot' = (IF slot = 0 THEN 0 ELSE slot - 1)
       /\ Handling("NextSlot") =>
            /\ slot' = slot + 1
            /\ PrevSlotValue(slot') = slot
       /\ slot' >= 0
       /\ slot' # slot => (Handling("PrevSlot") \/ Handling("NextSlot"))]_vars

\* PrevSlot has been handled and left the slot index at 0
C9_Witness ==
    /\ slot = 0
    /\ messageEvents = <<<<"State slot changed: #", 0>>>>

\* C10 as stated: the scale factor stays >= 1 and no event underflows.
C10_ScaleAtLeastOne ==
    /\ scaling >= 1
    /\ scaling # UsizeMax
    /\ panic # "attempt to subtract with overflow"

\* C11 as stated: handling ScaleUp or ScaleDown, and the Restore either of
\* them sends, never aborts the application, whatever the mode and whether
\* or not a session exists.
C11_ScaleRequestsNeverAbort ==
    [][(Handling("ScaleUp") \/ Handling("ScaleDown")
          \/ WindowHandling("Restore")) => panic' = "none"]_vars

\* C12 as stated: while the mode is Running or Rewinding and the window is
\* not fullscreen, ScaleUp and ScaleDown change the scale and send a Restore,
\* and the Restore or a ChangeScale sets the resolution to the frame buffer
\* size times the new scale, the mode staying as it was.  (Stated for a
\* scale of at least 1 before the change: what happens at 0 is C10's.)
C12_ScaleChangeReconciles ==
    [][(Current \in {"Running", "Rewinding"} /\ ~fullscreen /\ scaling >= 1) =>
         /\ (Handling("ScaleUp") \/ Handling("ScaleDown")) =>
               /\ windowEvents' = Append(windowEvents, <<"Restore">>)
               /\ panic' = "none"
               /\ UNCHANGED <<stack, scheduled>>
         /\ (WindowHandling("Restore") \/ WindowHandling("ChangeScale")) =>
               /\ resolution' = <<FbWidth * scaling', FbHeight * scaling'>>
               /\ panic' = "none"
               /\ UNCHANGED <<stack, scheduled>>]_vars

\* C13: a step of window_control_event that calls restore_window (Restore;
\* ToggleFullscreen with a session; ChangeScale while Running) leaves the
\* resolution alone if the fullscreen flag is set and otherwise sets it to
\* the menu size in Menu and to the frame buffer size times the scale in
\* any other mode; no other step of it changes the resolution.
C13_RestoreWindowTarget ==
    [][(pc = "window_control_event" /\ windowEvents # <<>> /\ panic' = "none") =>
         LET kind == Head(windowEvents)[1]
             called == \/ kind = "Restore"
                       \/ kind = "ToggleFullscreen" /\ emulator
                       \/ kind = "ChangeScale" /\ Current = "Running"
             target == IF Current = "Menu"
                         THEN <<MENU_WIDTH, MENU_HEIGHT>>
                         ELSE <<FbWidth * scaling', FbHeight * scaling'>>
         IN /\ called => resolution' = IF fullscreen' THEN resolution ELSE target
            /\ ~called => resolution' = resolution
            /\ fullscreen' => resolution' = resolution]_vars

\* a Restore has set the window of a running session to the scaled frame
\* buffer size
C13_Witness ==
    /\ pc = "window_control_event"
    /\ windowEvents = <<>>
    /\ Current = "Running"
    /\ ~fullscreen
    /\ resolution = <<FbWidth * scaling, FbHeight * scaling>>

\* C18 as stated: every hotkey event emitted in a tick is consumed in that
\* tick, so none is pending when the tick ends, under every order of the
\* systems.
C18_EmittedConsumedSameTick ==
    pc = "state_transition" => hotkeyEvents = <<>>

\* C19: after check_hotkey, and so at the end of the tick, the turbo flag is
\* whether Turbo's binding tree is held on the tick's snapshot, whatever the
\* previous snapshot; handling a Turbo event changes nothing but the queue
\* it is taken from.
C19_TurboIsLevel ==
    [][/\ CheckStep => isTurbo' = Held(DefaultHotKeys("Turbo"), input')
       /\ pc' = "state_transition" =>
             isTurbo' = Held(DefaultHotKeys("Turbo"), input')
       /\ Handling("Turbo") =>
             UNCHANGED <<isTurbo, stack, scheduled, emulator, slot, scaling,
                         fullscreen, windowMode, resolution, windowEvents,
                         messageEvents, notifications, unreadMessages,
                         emuCalls, panic>>]_vars

\* the second tick of a held Turbo binding ends: no event, the flag still set
C19_Witness ==
    /\ pc = "state_transition"
    /\ isTurbo
    /\ Held(DefaultHotKeys("Turbo"), input)
    /\ messageEvents = <<>>
    /\ windowEvents = <<>>
    /\ hotkeyEvents = <<>>

\* C20: the window is BorderlessFullscreen iff the fullscreen flag is set
\* and Windowed iff it is not; handling ToggleFullscreen flips the flag and
\* the window mode, so that a second toggle restores both; nothing else
\* changes either.
C20_WindowModeAgrees ==
    [][/\ fullscreen <=> windowMode = "BorderlessFullscreen"
       /\ ~fullscreen <=> windowMode = "Windowed"
       /\ fullscreen' <=> windowMode' = "BorderlessFullscreen"
       /\ ~fullscreen' <=> windowMode' = "Windowed"
       /\ WindowHandling("ToggleFullscreen") =>
             /\ fullscreen' = ~fullscreen
             /\ windowMode' # windowMode
       /\ (fullscreen' # fullscreen \/ windowMode' # windowMode) =>
             WindowHandling("ToggleFullscreen")]_vars

\* a ToggleFullscreen has been handled: flag set, window borderless
C20_Witness ==
    /\ fullscreen
    /\ windowMode = "BorderlessFullscreen"
    /\ pc = "state_transition"

\* the timestamp process_double_click kept after the press logged as e
Recorded(e) == IF e[2] THEN e[1] - 1000 ELSE e[1]

\* C14: a left press after the first sends one ToggleFullscreen and records
\* its time less 1000 ms if it comes less than 250 ms after the timestamp
\* recorded for the previous press, and otherwise sends nothing and records
\* its time; so of three presses, each less than 250 ms after the one before
\* and the first recorded as it came (as at t, t+200, t+300), the second
\* toggles and the third does not.
C14_DoubleClick ==
    [][(pc = "process_double_click" /\ mouseEvents # <<>>
          /\ IsLeftPress(Head(mouseEvents))) =>
         /\ clickLog # <<>> =>
              IF clock - Recorded(clickLog[Len(clickLog)]) < 250
                THEN /\ windowEvents' = Append(windowEvents, <<"ToggleFullscreen">>)
                     /\ lastClicked'.ms = clock - 1000
                ELSE /\ windowEvents' = windowEvents
                     /\ lastClicked'.ms = clock
         /\ \A i \in 1..(Len(clickLog') - 2) :
              (/\ ~clickLog'[i][2]
               /\ clickLog'[i + 1][1] - clickLog'[i][1] < 250
               /\ clickLog'[i + 2][1] - clickLog'[i + 1][1] < 250)
                 => (clickLog'[i + 1][2] /\ ~clickLog'[i + 2][2])]_vars

\* the notifications as <<text, start>> pairs, oldest first
Keys(ns) == [i \in 1..Len(ns) |-> <<ns[i].text, ns[i].start>>]

IsPrefix(a, b) == Len(a) <= Len(b) /\ SubSeq(b, 1, Len(a)) = a

\* the times at which the model creates notifications
CreationTimes ==
    {k * TimeStep : k \in 0..((SendHorizon \div TimeStep) + 2 * MaxSkip)}

\* C15 as stated, the lifetime: message_update_system keeps exactly the
\* notifications whose start t has clock <= t + 3000 and no other step
\* removes one, so a notification is there on every tick up to t + 3000 and
\* gone by the end of the first tick after.
C15_PresentUntilExpiry ==
    [][/\ pc = "message_update_system" =>
            Keys(notifications') =
               SelectSeq(Keys(notifications), LAMBDA k : clock <= k[2] + 3000)
       /\ pc # "message_update_system" =>
            IsPrefix(Keys(notifications), Keys(notifications'))
       /\ pc' = "state_transition" =>
            \A i \in 1..Len(notifications') :
               clock' <= notifications'[i].start + 3000]_vars

\* C15 as stated, in full: the lifetime, and with the frames going on every
\* notification is removed.
C15_NotificationLifetime ==
    /\ C15_PresentUntilExpiry
    /\ \A t \in CreationTimes :
         (\E i \in 1..Len(notifications) : notifications[i].start = t)
            ~> ~(\E i \in 1..Len(notifications) : notifications[i].start = t)

\* C16 as stated: a notification that has seen k newer insertions is at, or
\* easing to, its base position plus k steps.
C16_StackOffsets ==
    \A i \in 1..Len(notifications) :
       notifications[i].to = notifications[i].newer * StackStep

\* C17 as stated: message_event_system turns every ShowMessage request of
\* the tick into one new notification with the request's text and the
\* tick's time, whether or not a game screen exists.
C17_EveryRequestShown ==
    [][pc = "message_event_system" =>
         \E older \in {unreadMessages, <<>>} :
            Keys(notifications') =
               Keys(notifications)
                  \o [i \in 1..Len(older \o messageEvents) |->
                        <<(older \o messageEvents)[i], clock>>]]_vars

\* C21 as stated: the first left press handled since startup sends no
\* ToggleFullscreen, whatever the clock; an event that is not a left press
\* sends none and leaves the click timestamp alone.
C21_FirstPressNeverToggles ==
    [][(pc = "process_double_click" /\ mouseEvents # <<>>) =>
         /\ (IsLeftPress(Head(mouseEvents)) /\ clickLog = <<>>) =>
               windowEvents' = windowEvents
         /\ ~IsLeftPress(Head(mouseEvents)) =>
               UNCHANGED <<windowEvents, lastClicked>>]_vars

\* C22: whenever the active mode is Running or Rewinding a session exists,
\* before and after every step, and so does it whenever the queued
\* transition leads to one of them; hence neither the Rewind handler nor
\* ChangeScale ever aborts on an absent session.
C22_SessionWhileRunning ==
    [][/\ Current \in {"Running", "Rewinding"} => emulator
       /\ stack'[Len(stack')] \in {"Running", "Rewinding"} => emulator'
       /\ (scheduled' # <<>> /\ scheduled'[1] \in {"Set", "Push"}
             /\ scheduled'[2] \in {"Running", "Rewinding"}) => emulator'
       /\ (Handling("Rewind") \/ WindowHandling("ChangeScale")) =>
             panic' # "emulator: unwrap on None"]_vars

\* the Menu action, handled in Menu with a session, has queued Running
C22_Witness ==
    /\ pc = "state_transition"
    /\ stack = <<"Menu">>
    /\ scheduled = <<"Set", "Running">>
    /\ emulator

====
